---- MODULE Spec2Model ----
(***************************************************************************)
(* EndoTrace: role-gated record keeping for endoscopes and their           *)
(* sterilisation reports (Streamlit front end, auth.py and app.py).        *)
(*                                                                         *)
(* Every browser session runs the script main() once per user event; one   *)
(* action below is one such run, from the event to the last database call. *)
(* The DatabaseManager (database.py) is not part of the sources at hand:   *)
(* its operations are modelled from the specification and are grouped      *)
(* under "Record Store".                                                   *)
(***************************************************************************)
EXTENDS Integers, FiniteSets, Sequences, TLC

VARIABLES
    users,                  \* table users: rows [id, username, password, role]
    endoscopes,             \* table endoscopes
    sterilisation_reports,  \* table sterilisation_reports
    session_state,          \* per session: st.session_state identity keys
    edit_mode,              \* per session: endoscope ids whose edit_mode_<id> flag is set
    edit_steril,            \* per session: report ids whose edit_steril_<id> flag is set
    shown,                  \* messages on the page once the last script run has settled
                            \* (st.rerun() redraws the page without the messages before it)
    script_run,             \* per session, of its last script run followed call by call: the
                            \* line of its read of the endoscopes, the endoscopes_df it read,
                            \* the update_data it has submitted, whether it has returned
    send_attempts,          \* calls of send_malfunction_alert so far, each with its result
    dataframe               \* rows of the table the Archives page has drawn last

vars == <<users, endoscopes, sterilisation_reports, session_state, edit_mode, edit_steril, shown,
          script_run, send_attempts, dataframe>>
store == <<users, endoscopes, sterilisation_reports>>
aside == <<script_run, send_attempts, dataframe>>

----------------------------------------------------------------------------
(* Bounds and input domains *)

MaxUserId == 2
MaxEndoscopeId == 2
MaxReportId == 1
MaxFleet == 10
MaxAlerts == 2

Sessions == {"s1", "s2"}
Roles == {"admin", "biomedical", "sterilisation"}
None == "None"

UsernameInputs == {"", "admin", "alice"}
PasswordInputs == {"", "pw1", "pw2"}

----------------------------------------------------------------------------
(* Record Store: users (database.py) *)

hash_password(password) == <<"sha", password>>

NextId(table) == IF table = {} THEN 1 ELSE 1 + CHOOSE m \in {r.id : r \in table} : \A r \in table : r.id <= m

authenticate_user(username, password) ==
    IF \E u \in users : u.username = username /\ u.password = hash_password(password)
    THEN (CHOOSE u \in users : u.username = username /\ u.password = hash_password(password)).role
    ELSE None

add_user_ok(username) == \A u \in users : u.username # username

add_user(username, password, role) ==
    users \cup {[id |-> NextId(users), username |-> username,
                 password |-> hash_password(password), role |-> role]}

update_user_role(db, id, role) == {IF u.id = id THEN [u EXCEPT !.role = role] ELSE u : u \in db}

update_user_password(db, id, password) ==
    {IF u.id = id THEN [u EXCEPT !.password = hash_password(password)] ELSE u : u \in db}

delete_user(id) == {u \in users : u.id # id}

----------------------------------------------------------------------------
(* auth.py *)

check_authentication(ss) == "authenticated" \in DOMAIN ss /\ ss["authenticated"]

get_user_role(ss) == IF "user_role" \in DOMAIN ss THEN ss["user_role"] ELSE None

get_username(ss) == IF "username" \in DOMAIN ss THEN ss["username"] ELSE None

IdentityKeys == {"authenticated", "user_role", "username"}

LoggedIn(role, username) ==
    [k \in IdentityKeys |-> IF k = "authenticated" THEN TRUE
                            ELSE IF k = "user_role" THEN role ELSE username]

MsgLoginBad == "Nom d'utilisateur ou mot de passe incorrect"
MsgFillAll == "Veuillez remplir tous les champs"

\* login_form telling an unknown user from a wrong password.
login_form_telling(s, username, password) ==
    /\ IF username # "" /\ password # ""
       THEN LET role == authenticate_user(username, password) IN
            IF role # None
            THEN /\ session_state' = [session_state EXCEPT ![s] = LoggedIn(role, username)]
                 /\ shown' = {}
            ELSE /\ shown' = IF \E u \in users : u.username = username
                             THEN {MsgLoginBad} ELSE {"Utilisateur inconnu"}
                 /\ UNCHANGED session_state
       ELSE /\ shown' = {MsgFillAll}
            /\ UNCHANGED session_state
    /\ UNCHANGED <<store, edit_mode, edit_steril, aside>>

\* login_form that leaves the key user_role out.
login_form_without_role(s, username, password) ==
    /\ IF username # "" /\ password # ""
       THEN LET role == authenticate_user(username, password) IN
            IF role # None
            THEN /\ session_state' = [session_state EXCEPT ![s] =
                                         [k \in {"authenticated", "username"} |->
                                             IF k = "authenticated" THEN TRUE ELSE username]]
                 /\ shown' = {}
            ELSE /\ shown' = {MsgLoginBad}
                 /\ UNCHANGED session_state
       ELSE /\ shown' = {MsgFillAll}
            /\ UNCHANGED session_state
    /\ UNCHANGED <<store, edit_mode, edit_steril, aside>>

login_form(s, username, password) ==
    /\ IF username # "" /\ password # ""
       THEN LET role == authenticate_user(username, password) IN
            IF role # None
            THEN /\ session_state' = [session_state EXCEPT ![s] = LoggedIn(role, username)]
                 /\ shown' = {}
            ELSE /\ shown' = {MsgLoginBad}
                 /\ UNCHANGED session_state
       ELSE /\ shown' = {MsgFillAll}
            /\ UNCHANGED session_state
    /\ UNCHANGED <<store, edit_mode, edit_steril, aside>>

\* logout whose loop leaves the key username out.
logout_keeps_username(s) ==
    /\ session_state' = [session_state EXCEPT ![s] =
                            [k \in (DOMAIN session_state[s]) \ {"authenticated", "user_role"} |->
                                session_state[s][k]]]
    /\ shown' = {}
    /\ UNCHANGED <<store, edit_mode, edit_steril, aside>>

logout(s) ==
    /\ session_state' = [session_state EXCEPT ![s] =
                            [k \in (DOMAIN session_state[s]) \ IdentityKeys |-> session_state[s][k]]]
    /\ shown' = {}
    /\ UNCHANGED <<store, edit_mode, edit_steril, aside>>

MsgUnauthenticated == "Vous devez être connecté pour accéder à cette page"
MsgForbidden == "Accès refusé. Rôles autorisés"

\* require_role without its test of the role.
require_role_any(allowed_roles, ss) ==
    IF ~check_authentication(ss) THEN MsgUnauthenticated ELSE "func"

\* The wrapper's decision: which branch of wrapper() a call takes.
require_role(allowed_roles, ss) ==
    IF ~check_authentication(ss) THEN MsgUnauthenticated
    ELSE IF get_user_role(ss) \notin allowed_roles THEN MsgForbidden
    ELSE "func"

\* wrapper(*args): func runs behind the two early returns, which only display a message.
wrapper(s, allowed_roles, func) ==
    IF require_role(allowed_roles, session_state[s]) = "func"
    THEN func
    ELSE /\ shown' = {require_role(allowed_roles, session_state[s])}
         /\ UNCHANGED <<store, session_state, edit_mode, edit_steril, aside>>

----------------------------------------------------------------------------
(* app.py: main *)

PageDashboard == "Dashboard"
PageUsers == "Gestion des Utilisateurs"
PageInventory == "Gestion Inventaire"
PageReports == "Rapports de Stérilisation"
PageArchives == "Archives"
Pages == {PageDashboard, PageUsers, PageInventory, PageReports, PageArchives}

menu_options(user_role) ==
    IF user_role = "admin" THEN {PageDashboard, PageUsers, PageArchives}
    ELSE IF user_role = "biomedical" THEN {PageDashboard, PageInventory, PageArchives}
    ELSE IF user_role = "sterilisation" THEN {PageDashboard, PageReports, PageArchives}
    ELSE {PageDashboard}

\* The roles each page function is decorated with; Dashboard and Archives are not decorated.
allowed_roles_of(page) ==
    IF page = PageUsers THEN {"admin"}
    ELSE IF page = PageInventory THEN {"biomedical"}
    ELSE IF page = PageReports THEN {"sterilisation", "biomedical"}
    ELSE Roles \cup {None}

\* main() up to the dispatch: the session is authenticated and the page is one of its menu.
main(s, selected_page) ==
    /\ check_authentication(session_state[s])
    /\ selected_page \in menu_options(get_user_role(session_state[s]))

main_login(s, username, password) ==
    /\ ~check_authentication(session_state[s])
    /\ login_form(s, username, password)

main_logout(s) ==
    /\ check_authentication(session_state[s])
    /\ logout(s)

----------------------------------------------------------------------------
(* app.py: show_admin_interface *)

show_admin_interface(s, func) == wrapper(s, {"admin"}, func)

MsgNoChange == "Aucune modification effectuée"
MsgAdminProtected == "Admin protégé"
MsgUserExists == "Erreur: Nom d'utilisateur déjà existant"

\* edit_user_btn that also hands the new role to the sessions open under the user's name.
edit_user_btn_live(s, id, new_role, new_password) ==
    /\ \E user \in users : user.id = id
    /\ LET user == CHOOSE u \in users : u.id = id
           current_role == user.role
           db1 == IF new_role # current_role THEN update_user_role(users, id, new_role) ELSE users
           db2 == IF new_password # "" THEN update_user_password(db1, id, new_password) ELSE db1
           updated == new_role # current_role \/ new_password # ""
       IN /\ users' = db2
          /\ shown' = IF updated THEN {} ELSE {MsgNoChange}
          /\ session_state' =
                 [t \in Sessions |->
                     IF check_authentication(session_state[t])
                        /\ get_username(session_state[t]) = user.username
                     THEN LoggedIn(new_role, user.username)
                     ELSE session_state[t]]
    /\ UNCHANGED <<endoscopes, sterilisation_reports, edit_mode, edit_steril, aside>>

\* "Modifier" on the row of user id, with the row's role selectbox and password input.
edit_user_btn(s, id, new_role, new_password) ==
    /\ \E user \in users : user.id = id
    /\ LET user == CHOOSE u \in users : u.id = id
           current_role == user.role
           db1 == IF new_role # current_role THEN update_user_role(users, id, new_role) ELSE users
           db2 == IF new_password # "" THEN update_user_password(db1, id, new_password) ELSE db1
           updated == new_role # current_role \/ new_password # ""
       IN /\ users' = db2
          /\ shown' = IF updated THEN {} ELSE {MsgNoChange}
    /\ UNCHANGED <<endoscopes, sterilisation_reports, session_state, edit_mode, edit_steril, aside>>

\* delete_user_btn without the test on the username.
delete_user_btn_unprotected(s, id) ==
    /\ \E user \in users : user.id = id
    /\ users' = delete_user(id)
    /\ shown' = {}
    /\ UNCHANGED <<endoscopes, sterilisation_reports, session_state, edit_mode, edit_steril, aside>>

\* Column 5 of the row of user id: the "Supprimer" button, or the notice that replaces it.
delete_user_btn(s, id) ==
    /\ \E user \in users : user.id = id
    /\ LET user == CHOOSE u \in users : u.id = id IN
       IF user.username # "admin"
       THEN /\ users' = delete_user(id)
            /\ shown' = {}
       ELSE /\ shown' = {MsgAdminProtected}
            /\ UNCHANGED users
    /\ UNCHANGED <<endoscopes, sterilisation_reports, session_state, edit_mode, edit_steril, aside>>

add_user_form(s, new_username, new_password, new_role) ==
    /\ IF new_username # "" /\ new_password # ""
       THEN IF add_user_ok(new_username)
            THEN /\ users' = add_user(new_username, new_password, new_role)
                 /\ shown' = {}
            ELSE /\ shown' = {MsgUserExists}
                 /\ UNCHANGED users
       ELSE /\ shown' = {MsgFillAll}
            /\ UNCHANGED users
    /\ UNCHANGED <<endoscopes, sterilisation_reports, session_state, edit_mode, edit_steril, aside>>

----------------------------------------------------------------------------
(* Record Store: endoscopes (database.py) *)

add_endoscope_ok(numero_serie) == \A e \in endoscopes : e.numero_serie # numero_serie

add_endoscope(designation, marque, modele, numero_serie, etat, observation, localisation, created_by) ==
    endoscopes \cup {[id |-> NextId(endoscopes), designation |-> designation, marque |-> marque,
                      modele |-> modele, numero_serie |-> numero_serie, etat |-> etat,
                      observation |-> observation, localisation |-> localisation,
                      created_by |-> created_by]}

update_endoscope_ok(id, update_data) ==
    /\ \E e \in endoscopes : e.id = id
    /\ \A e \in endoscopes : e.id # id => e.numero_serie # update_data.numero_serie

update_endoscope(id, update_data) ==
    {IF e.id = id
     THEN [id |-> e.id, designation |-> update_data.designation, marque |-> update_data.marque,
           modele |-> update_data.modele, numero_serie |-> update_data.numero_serie,
           etat |-> update_data.etat, observation |-> update_data.observation,
           localisation |-> update_data.localisation, created_by |-> e.created_by]
     ELSE e : e \in endoscopes}

delete_endoscope(id) == {e \in endoscopes : e.id # id}

----------------------------------------------------------------------------
(* app.py: show_biomedical_interface *)

show_biomedical_interface(s, func) == wrapper(s, {"biomedical"}, func)

Etats == {"fonctionnel", "en panne"}
Localisations == {"stock", "en utilisation", "externe", "zone de stérilisation"}

MsgEndoscopeUpdateError == "Erreur lors de la mise à jour."
MsgEndoscopeAdded == "Endoscope ajouté avec succès!"
MsgSerialExists == "Erreur: Numéro de série déjà existant."
MsgRequired == "Veuillez remplir tous les champs obligatoires (*)"

\* "Modifier" in the expander of endoscope id.
edit_btn(s, id) ==
    /\ \E endoscope \in endoscopes : endoscope.id = id
    /\ edit_mode' = [edit_mode EXCEPT ![s] = @ \cup {id}]
    /\ shown' = {}
    /\ UNCHANGED <<store, session_state, edit_steril, aside>>

\* delete_btn taking the reports of the endoscope away with it.
delete_btn_cascading(s, id) ==
    /\ \E endoscope \in endoscopes : endoscope.id = id
    /\ endoscopes' = delete_endoscope(id)
    /\ sterilisation_reports' =
           {r \in sterilisation_reports :
               \A e \in endoscopes : e.id = id => r.numero_serie # e.numero_serie}
    /\ shown' = {}
    /\ UNCHANGED <<users, session_state, edit_mode, edit_steril, aside>>

\* "Supprimer" in the expander of endoscope id.
delete_btn(s, id) ==
    /\ \E endoscope \in endoscopes : endoscope.id = id
    /\ endoscopes' = delete_endoscope(id)
    /\ shown' = {}
    /\ UNCHANGED <<users, sterilisation_reports, session_state, edit_mode, edit_steril, aside>>

\* "Mettre à jour" in update_form_<id>, shown while the edit flag of id is set.
update_form(s, id, update_data) ==
    /\ \E endoscope \in endoscopes : endoscope.id = id
    /\ id \in edit_mode[s]
    /\ IF update_endoscope_ok(id, update_data)
       THEN /\ endoscopes' = update_endoscope(id, update_data)
            /\ edit_mode' = [edit_mode EXCEPT ![s] = @ \ {id}]
            /\ shown' = {}
       ELSE /\ shown' = {MsgEndoscopeUpdateError}
            /\ UNCHANGED <<endoscopes, edit_mode>>
    /\ UNCHANGED <<users, sterilisation_reports, session_state, edit_steril, aside>>

\* "Annuler" in update_form_<id>.
update_form_cancel(s, id) ==
    /\ \E endoscope \in endoscopes : endoscope.id = id
    /\ id \in edit_mode[s]
    /\ edit_mode' = [edit_mode EXCEPT ![s] = @ \ {id}]
    /\ shown' = {}
    /\ UNCHANGED <<store, session_state, edit_steril, aside>>

\* add_endoscope_form handing the designation over where the numero_serie belongs.
add_endoscope_form_swapped(s, designation, marque, modele, numero_serie, etat, observation, localisation) ==
    /\ IF designation # "" /\ marque # "" /\ modele # "" /\ numero_serie # "" /\ localisation # ""
       THEN IF add_endoscope_ok(designation)
            THEN /\ endoscopes' = add_endoscope(designation, marque, modele, designation, etat,
                                                observation, localisation,
                                                get_username(session_state[s]))
                 /\ shown' = {MsgEndoscopeAdded}
            ELSE /\ shown' = {MsgSerialExists}
                 /\ UNCHANGED endoscopes
       ELSE /\ shown' = {MsgRequired}
            /\ UNCHANGED endoscopes
    /\ UNCHANGED <<users, sterilisation_reports, session_state, edit_mode, edit_steril, aside>>

add_endoscope_form(s, designation, marque, modele, numero_serie, etat, observation, localisation) ==
    /\ IF designation # "" /\ marque # "" /\ modele # "" /\ numero_serie # "" /\ localisation # ""
       THEN IF add_endoscope_ok(numero_serie)
            THEN /\ endoscopes' = add_endoscope(designation, marque, modele, numero_serie, etat,
                                                observation, localisation,
                                                get_username(session_state[s]))
                 /\ shown' = {MsgEndoscopeAdded}
            ELSE /\ shown' = {MsgSerialExists}
                 /\ UNCHANGED endoscopes
       ELSE /\ shown' = {MsgRequired}
            /\ UNCHANGED endoscopes
    /\ UNCHANGED <<users, sterilisation_reports, session_state, edit_mode, edit_steril, aside>>

----------------------------------------------------------------------------
(* Record Store: sterilisation_reports (database.py) *)

\* A date as the store keeps it: its ISO text.
str_date(date) == <<"iso", date>>

\* Inserts the report and sets the etat of the endoscope that carries its numero_serie.
add_sterilisation_report_rows(nom_operateur, endoscope, numero_serie, form, procedure_medicale, nature_panne, created_by) ==
    sterilisation_reports \cup
        {[id |-> NextId(sterilisation_reports), nom_operateur |-> nom_operateur,
          endoscope |-> endoscope, numero_serie |-> numero_serie,
          medecin_responsable |-> form.medecin_responsable,
          date_desinfection |-> str_date(form.date_desinfection),
          type_desinfection |-> form.type_desinfection, cycle |-> form.cycle,
          test_etancheite |-> form.test_etancheite, heure_debut |-> form.heure_debut,
          heure_fin |-> form.heure_fin, procedure_medicale |-> procedure_medicale,
          salle |-> form.salle, type_acte |-> form.type_acte,
          etat_endoscope |-> form.etat_endoscope, nature_panne |-> nature_panne,
          created_by |-> created_by]}

add_sterilisation_report_etat(numero_serie, etat_endoscope) ==
    {IF e.numero_serie = numero_serie THEN [e EXCEPT !.etat = etat_endoscope] ELSE e : e \in endoscopes}

update_sterilisation_report(id, update_fields) ==
    {IF r.id = id
     THEN [id |-> r.id, nom_operateur |-> update_fields.nom_operateur,
           endoscope |-> update_fields.endoscope, numero_serie |-> update_fields.numero_serie,
           medecin_responsable |-> update_fields.medecin_responsable,
           date_desinfection |-> update_fields.date_desinfection,
           type_desinfection |-> update_fields.type_desinfection, cycle |-> update_fields.cycle,
           test_etancheite |-> update_fields.test_etancheite,
           heure_debut |-> update_fields.heure_debut, heure_fin |-> update_fields.heure_fin,
           procedure_medicale |-> update_fields.procedure_medicale,
           salle |-> update_fields.salle, type_acte |-> update_fields.type_acte,
           etat_endoscope |-> update_fields.etat_endoscope,
           nature_panne |-> update_fields.nature_panne, created_by |-> r.created_by]
     ELSE r : r \in sterilisation_reports}

delete_sterilisation_report(id) == {r \in sterilisation_reports : r.id # id}

get_user_sterilisation_reports(username) == {r \in sterilisation_reports : r.created_by = username}

can_user_modify_sterilisation_report(user_role, report_id, username) ==
    \/ user_role \in {"admin", "biomedical"}
    \/ /\ user_role = "sterilisation"
       /\ \E r \in sterilisation_reports : r.id = report_id /\ r.created_by = username

----------------------------------------------------------------------------
(* Record Store: reporting (database.py) *)

\* A float that is the quotient of two integers, kept as <<numerator, denominator>>.
Quotient(n, d) == <<n, d>>
Greater(q, k) == q[1] > k * q[2]
Equal(q, k) == q[1] = k * q[2]

\* (malfunction_percentage, broken_count, total_count) over the table of endoscopes.
get_malfunction_percentage ==
    LET total_count == Cardinality(endoscopes)
        broken_count == Cardinality({e \in endoscopes : e.etat = "en panne"})
    IN [malfunction_percentage |-> IF total_count > 0 THEN Quotient(100 * broken_count, total_count)
                                   ELSE Quotient(0, 1),
        broken_count |-> broken_count, total_count |-> total_count]

\* status_stats of get_dashboard_stats: the count of endoscopes per etat present.
status_stats ==
    [etat \in {e.etat : e \in endoscopes} |-> Cardinality({e \in endoscopes : e.etat = etat})]

----------------------------------------------------------------------------
(* app.py: show_sterilization_interface *)

show_sterilization_interface(s, func) == wrapper(s, {"sterilisation", "biomedical"}, func)

MsgNature == "Veuillez spécifier la nature de la panne"
MsgHeure == "Format d'heure invalide. Utilisez HH:MM (ex: 14:30)"

\* ":" in heure, on a text given as its characters.
has_colon(heure) == \E i \in DOMAIN heure : heure[i] = ":"

\* nature_panne read from a text area that is always there.
nature_panne_always(form) == form.nature_panne

\* The text area of nature_panne exists only when the state selected is "en panne".
nature_panne_of(form) == IF form.etat_endoscope = "en panne" THEN form.nature_panne ELSE None

\* sterilisation_report_form handing the designation over where the numero_serie belongs.
sterilisation_report_form_by_name(s, form) ==
    /\ endoscopes # {}
    /\ \E e \in endoscopes : e.id = form.selected_id
    /\ IF \/ form.medecin_responsable = "" \/ form.salle = "" \/ form.type_acte = ""
          \/ form.heure_debut = <<>> \/ form.heure_fin = <<>>
       THEN /\ shown' = {MsgRequired}
            /\ UNCHANGED <<endoscopes, sterilisation_reports>>
       ELSE IF form.etat_endoscope = "en panne" /\ nature_panne_of(form) \in {None, ""}
       THEN /\ shown' = {MsgNature}
            /\ UNCHANGED <<endoscopes, sterilisation_reports>>
       ELSE IF ~has_colon(form.heure_debut) \/ ~has_colon(form.heure_fin)
       THEN /\ shown' = {MsgHeure}
            /\ UNCHANGED <<endoscopes, sterilisation_reports>>
       ELSE LET nom_operateur == get_username(session_state[s])
                selected_endoscope_details == CHOOSE e \in endoscopes : e.id = form.selected_id
                endoscope_name == selected_endoscope_details.designation
                numero_serie_val == selected_endoscope_details.numero_serie
            IN /\ sterilisation_reports' =
                      add_sterilisation_report_rows(nom_operateur, endoscope_name, numero_serie_val,
                                                    form, "N/A", nature_panne_of(form), nom_operateur)
               /\ endoscopes' = add_sterilisation_report_etat(endoscope_name, form.etat_endoscope)
               /\ shown' = {}
    /\ UNCHANGED <<users, session_state, edit_mode, edit_steril, aside>>

\* "Enregistrer Rapport de Stérilisation" in sterilisation_report_form.
sterilisation_report_form(s, form) ==
    /\ endoscopes # {}
    /\ \E e \in endoscopes : e.id = form.selected_id
    /\ IF \/ form.medecin_responsable = "" \/ form.salle = "" \/ form.type_acte = ""
          \/ form.heure_debut = <<>> \/ form.heure_fin = <<>>
       THEN /\ shown' = {MsgRequired}
            /\ UNCHANGED <<endoscopes, sterilisation_reports>>
       ELSE IF form.etat_endoscope = "en panne" /\ nature_panne_of(form) \in {None, ""}
       THEN /\ shown' = {MsgNature}
            /\ UNCHANGED <<endoscopes, sterilisation_reports>>
       ELSE IF ~has_colon(form.heure_debut) \/ ~has_colon(form.heure_fin)
       THEN /\ shown' = {MsgHeure}
            /\ UNCHANGED <<endoscopes, sterilisation_reports>>
       ELSE LET nom_operateur == get_username(session_state[s])
                selected_endoscope_details == CHOOSE e \in endoscopes : e.id = form.selected_id
                endoscope_name == selected_endoscope_details.designation
                numero_serie_val == selected_endoscope_details.numero_serie
            IN /\ sterilisation_reports' =
                      add_sterilisation_report_rows(nom_operateur, endoscope_name, numero_serie_val,
                                                    form, "N/A", nature_panne_of(form), nom_operateur)
               /\ endoscopes' = add_sterilisation_report_etat(numero_serie_val, form.etat_endoscope)
               /\ shown' = {}
    /\ UNCHANGED <<users, session_state, edit_mode, edit_steril, aside>>

\* The list without the restriction to the user's own reports.
steril_reports_of_all(s, filter_by_user) == sterilisation_reports

\* The reports listed in the tab "Gérer Rapports".
steril_reports(s, filter_by_user) ==
    IF filter_by_user \/ get_user_role(session_state[s]) = "sterilisation"
    THEN get_user_sterilisation_reports(get_username(session_state[s]))
    ELSE sterilisation_reports

\* can_modify asked with the report's author in the place of the acting user.
can_modify_as_author(s, report) ==
    can_user_modify_sterilisation_report(get_user_role(session_state[s]), report.id,
                                         report.created_by)

can_modify(s, report) ==
    can_user_modify_sterilisation_report(get_user_role(session_state[s]), report.id,
                                         get_username(session_state[s]))

\* "Modifier" in the expander of a listed report.
edit_steril_btn(s, id, filter_by_user) ==
    /\ endoscopes # {}
    /\ \E report \in steril_reports(s, filter_by_user) : report.id = id /\ can_modify(s, report)
    /\ edit_steril' = [edit_steril EXCEPT ![s] = @ \cup {id}]
    /\ shown' = {}
    /\ UNCHANGED <<store, session_state, edit_mode, aside>>

\* "Supprimer" in the expander of a listed report.
del_steril_btn(s, id, filter_by_user) ==
    /\ endoscopes # {}
    /\ \E report \in steril_reports(s, filter_by_user) : report.id = id /\ can_modify(s, report)
    /\ sterilisation_reports' = delete_sterilisation_report(id)
    /\ shown' = {}
    /\ UNCHANGED <<users, endoscopes, session_state, edit_mode, edit_steril, aside>>

\* "Enregistrer les modifications" in the edit form of a listed report whose flag is set.
edit_sterilisation_report_form(s, id, filter_by_user, form) ==
    /\ endoscopes # {}
    /\ \E report \in steril_reports(s, filter_by_user) : report.id = id
    /\ id \in edit_steril[s]
    /\ LET report == CHOOSE r \in sterilisation_reports : r.id = id
           new_nature_panne == nature_panne_of(form)
       IN IF \/ form.nom_operateur = "" \/ form.endoscope = "" \/ form.numero_serie = ""
             \/ form.medecin_responsable = "" \/ form.salle = "" \/ form.type_acte = ""
             \/ form.heure_debut = <<>> \/ form.heure_fin = <<>>
          THEN /\ shown' = {MsgRequired}
               /\ UNCHANGED <<sterilisation_reports, edit_steril>>
          ELSE IF form.etat_endoscope = "en panne" /\ new_nature_panne \in {None, ""}
          THEN /\ shown' = {MsgNature}
               /\ UNCHANGED <<sterilisation_reports, edit_steril>>
          ELSE IF ~has_colon(form.heure_debut) \/ ~has_colon(form.heure_fin)
          THEN /\ shown' = {MsgHeure}
               /\ UNCHANGED <<sterilisation_reports, edit_steril>>
          ELSE /\ sterilisation_reports' = update_sterilisation_report(id,
                      [nom_operateur |-> form.nom_operateur, endoscope |-> form.endoscope,
                       numero_serie |-> form.numero_serie,
                       medecin_responsable |-> form.medecin_responsable,
                       date_desinfection |-> str_date(form.date_desinfection),
                       type_desinfection |-> form.type_desinfection, cycle |-> form.cycle,
                       test_etancheite |-> form.test_etancheite,
                       heure_debut |-> form.heure_debut, heure_fin |-> form.heure_fin,
                       salle |-> form.salle, type_acte |-> form.type_acte,
                       etat_endoscope |-> form.etat_endoscope,
                       nature_panne |-> new_nature_panne,
                       procedure_medicale |-> report.procedure_medicale])
               /\ edit_steril' = [edit_steril EXCEPT ![s] = @ \ {id}]
               /\ shown' = {}
    /\ UNCHANGED <<users, endoscopes, session_state, edit_mode, aside>>

\* "Annuler la modification" under the edit form.
cancel_edit(s, id, filter_by_user) ==
    /\ endoscopes # {}
    /\ \E report \in steril_reports(s, filter_by_user) : report.id = id
    /\ id \in edit_steril[s]
    /\ edit_steril' = [edit_steril EXCEPT ![s] = @ \ {id}]
    /\ shown' = {}
    /\ UNCHANGED <<store, session_state, edit_mode, aside>>

----------------------------------------------------------------------------
(* app.py: one script run call by call, from its read of the endoscopes to its write *)

\* No script run of the session is in flight.
Idle(s) == script_run[s].returned

\* db.get_all_endoscopes() at the given line: the run keeps what it read in endoscopes_df.
get_all_endoscopes(s, line) ==
    /\ Idle(s)
    /\ script_run' = [script_run EXCEPT ![s] = [line |-> line, endoscopes_df |-> endoscopes,
                                                update_data |-> {}, returned |-> FALSE]]
    /\ shown' = {}
    /\ UNCHANGED <<store, session_state, edit_mode, edit_steril, send_attempts, dataframe>>

\* update_form_write refusing to write over a row that is no longer the row it has read.
update_form_write_versioned(s, id, update_data) ==
    /\ ~Idle(s) /\ script_run[s].line = 279
    /\ \E endoscope \in script_run[s].endoscopes_df : endoscope.id = id
    /\ id \in edit_mode[s]
    /\ IF /\ update_endoscope_ok(id, update_data)
          /\ \E endoscope \in script_run[s].endoscopes_df : endoscope \in endoscopes /\ endoscope.id = id
       THEN /\ endoscopes' = update_endoscope(id, update_data)
            /\ edit_mode' = [edit_mode EXCEPT ![s] = @ \ {id}]
            /\ shown' = {}
       ELSE /\ shown' = {MsgEndoscopeUpdateError}
            /\ UNCHANGED <<endoscopes, edit_mode>>
    /\ script_run' = [script_run EXCEPT ![s].update_data = {update_data}, ![s].returned = TRUE]
    /\ UNCHANGED <<users, sterilisation_reports, session_state, edit_steril, send_attempts, dataframe>>

\* "Mettre à jour" in a run that has read endoscopes_df at line 279: the form of row id is
\* drawn from that read, db.update_endoscope works on the table as it is by then.
update_form_write(s, id, update_data) ==
    /\ ~Idle(s) /\ script_run[s].line = 279
    /\ \E endoscope \in script_run[s].endoscopes_df : endoscope.id = id
    /\ id \in edit_mode[s]
    /\ IF update_endoscope_ok(id, update_data)
       THEN /\ endoscopes' = update_endoscope(id, update_data)
            /\ edit_mode' = [edit_mode EXCEPT ![s] = @ \ {id}]
            /\ shown' = {}
       ELSE /\ shown' = {MsgEndoscopeUpdateError}
            /\ UNCHANGED <<endoscopes, edit_mode>>
    /\ script_run' = [script_run EXCEPT ![s].update_data = {update_data}, ![s].returned = TRUE]
    /\ UNCHANGED <<users, sterilisation_reports, session_state, edit_steril, send_attempts, dataframe>>

\* "Enregistrer Rapport de Stérilisation" in a run that has read endoscopes_df at line 377:
\* the selected endoscope and its details are those of that read (lines 393-403 and 439-441),
\* db.add_sterilisation_report works on the tables as they are by then.
sterilisation_report_write(s, form) ==
    /\ ~Idle(s) /\ script_run[s].line = 377
    /\ \E e \in script_run[s].endoscopes_df : e.id = form.selected_id
    /\ IF \/ form.medecin_responsable = "" \/ form.salle = "" \/ form.type_acte = ""
          \/ form.heure_debut = <<>> \/ form.heure_fin = <<>>
       THEN /\ shown' = {MsgRequired}
            /\ UNCHANGED <<endoscopes, sterilisation_reports>>
       ELSE IF form.etat_endoscope = "en panne" /\ nature_panne_of(form) \in {None, ""}
       THEN /\ shown' = {MsgNature}
            /\ UNCHANGED <<endoscopes, sterilisation_reports>>
       ELSE IF ~has_colon(form.heure_debut) \/ ~has_colon(form.heure_fin)
       THEN /\ shown' = {MsgHeure}
            /\ UNCHANGED <<endoscopes, sterilisation_reports>>
       ELSE LET nom_operateur == get_username(session_state[s])
                selected_endoscope_details ==
                    CHOOSE e \in script_run[s].endoscopes_df : e.id = form.selected_id
                endoscope_name == selected_endoscope_details.designation
                numero_serie_val == selected_endoscope_details.numero_serie
            IN /\ sterilisation_reports' =
                      add_sterilisation_report_rows(nom_operateur, endoscope_name, numero_serie_val,
                                                    form, "N/A", nature_panne_of(form), nom_operateur)
               /\ endoscopes' = add_sterilisation_report_etat(numero_serie_val, form.etat_endoscope)
               /\ shown' = {}
    /\ script_run' = [script_run EXCEPT ![s].returned = TRUE]
    /\ UNCHANGED <<users, session_state, edit_mode, edit_steril, send_attempts, dataframe>>

\* The run returns with no write: it has read no endoscope at line 377 (line 381), or no
\* form was submitted to it.
script_returns(s) ==
    /\ ~Idle(s)
    /\ script_run' = [script_run EXCEPT ![s].returned = TRUE]
    /\ UNCHANGED <<store, session_state, edit_mode, edit_steril, shown, send_attempts, dataframe>>

----------------------------------------------------------------------------
(* email_alerts.py and app.py: show_dashboard *)

MsgAlertSent == "Email d'alerte envoyé avec succès!"
MsgAlertFailed == "Erreur lors de l'envoi de l'email. Vérifiez la configuration SMTP."

\* EmailAlertManager.send_malfunction_alert: one attempt on the mail transport, whose result
\* (sent or not) is the transport's.
send_malfunction_alert(malfunction_percentage, broken_count, total_count, sent) ==
    Append(send_attempts, [malfunction_percentage |-> malfunction_percentage,
                           broken_count |-> broken_count, total_count |-> total_count,
                           sent |-> sent])

\* The alert offered at half of the inventory already.
alert_offered_at_half ==
    LET q == get_malfunction_percentage.malfunction_percentage IN q[1] >= 50 * q[2]

\* The test that draws the critical alert and its button.
alert_offered == Greater(get_malfunction_percentage.malfunction_percentage, 50)

\* The dashboard drawn with no button pressed.
show_dashboard(s) ==
    /\ shown' = {}
    /\ UNCHANGED <<store, session_state, edit_mode, edit_steril, aside>>

\* send_alert_btn trying a second time when the first attempt has failed.
send_alert_btn_retrying(s, sent) ==
    /\ alert_offered
    /\ LET stats == get_malfunction_percentage
           once == send_malfunction_alert(stats.malfunction_percentage, stats.broken_count,
                                          stats.total_count, sent)
       IN /\ send_attempts' = IF sent THEN once ELSE Append(once, once[Len(once)])
          /\ shown' = IF sent THEN {MsgAlertSent} ELSE {MsgAlertFailed}
    /\ UNCHANGED <<store, session_state, edit_mode, edit_steril, script_run, dataframe>>

\* "Envoyer alerte par email" under the critical alert.
send_alert_btn(s, sent) ==
    /\ alert_offered
    /\ LET stats == get_malfunction_percentage IN
       /\ send_attempts' = send_malfunction_alert(stats.malfunction_percentage, stats.broken_count,
                                                  stats.total_count, sent)
       /\ shown' = IF sent THEN {MsgAlertSent} ELSE {MsgAlertFailed}
    /\ UNCHANGED <<store, session_state, edit_mode, edit_steril, script_run, dataframe>>

----------------------------------------------------------------------------
(* app.py: main, the dispatch to the page functions (lines 83-92) *)

page_dashboard(s, func) == main(s, PageDashboard) /\ func

page_users(s, func) == main(s, PageUsers) /\ show_admin_interface(s, func)

\* The inventory page without its decorator, dispatched for the Dashboard entry.
page_inventory_open(s, func) == main(s, PageDashboard) /\ func

page_inventory(s, func) == main(s, PageInventory) /\ show_biomedical_interface(s, func)

page_reports(s, func) == main(s, PageReports) /\ show_sterilization_interface(s, func)

----------------------------------------------------------------------------
(* Initial states *)

NoSession == [s \in Sessions |-> [k \in {} |-> TRUE]]
NoFlags == [s \in Sessions |-> {}]
NoRun == [s \in Sessions |-> [line |-> 0, endoscopes_df |-> {}, update_data |-> {}, returned |-> TRUE]]

\* Nothing in flight, no alert sent, no table drawn.
InitAside ==
    /\ script_run = NoRun
    /\ send_attempts = <<>>
    /\ dataframe = [drawn |-> FALSE, data |-> <<>>]

\* A new installation: the store holds the default administrator and nothing else.
DefaultUsers == {[id |-> 1, username |-> "admin", password |-> hash_password("pw1"), role |-> "admin"]}

\* A unit at work: the administrator has added one engineer and two sterilisation agents.
ClinicUsers ==
    DefaultUsers \cup
    {[id |-> 2, username |-> "bio", password |-> hash_password("pw1"), role |-> "biomedical"],
     [id |-> 3, username |-> "alice", password |-> hash_password("pw1"), role |-> "sterilisation"],
     [id |-> 4, username |-> "bob", password |-> hash_password("pw1"), role |-> "sterilisation"]}

InitUsers ==
    /\ users = DefaultUsers
    /\ endoscopes = {}
    /\ sterilisation_reports = {}
    /\ session_state = NoSession
    /\ edit_mode = NoFlags
    /\ edit_steril = NoFlags
    /\ shown = {}
    /\ InitAside

InitRecords ==
    /\ users = ClinicUsers
    /\ endoscopes = {}
    /\ sterilisation_reports = {}
    /\ session_state = NoSession
    /\ edit_mode = NoFlags
    /\ edit_steril = NoFlags
    /\ shown = {}
    /\ InitAside

\* The same unit with one endoscope in stock.
ClinicEndoscopes ==
    {[id |-> 1, designation |-> "Gastroscope", marque |-> "Olympus", modele |-> "GIF",
      numero_serie |-> "SN1", etat |-> "fonctionnel", observation |-> "",
      localisation |-> "stock", created_by |-> "bio"]}

InitReports ==
    /\ users = ClinicUsers
    /\ endoscopes = ClinicEndoscopes
    /\ sterilisation_reports = {}
    /\ session_state = NoSession
    /\ edit_mode = NoFlags
    /\ edit_steril = NoFlags
    /\ shown = {}
    /\ InitAside

----------------------------------------------------------------------------
(* Inputs of the forms *)

UserIds == 1..MaxUserId
EndoscopeIds == 1..MaxEndoscopeId
ReportIds == 1..MaxReportId

Designations == {"Gastroscope"}
Serials == {"SN1", "SN2"}

UpdateData ==
    [designation : Designations, marque : {"Olympus"}, modele : {"GIF"}, numero_serie : Serials,
     etat : Etats, observation : {""}, localisation : {"stock"}]

HeureOk == <<"1", "4", ":", "3", "0">>
HeureNoColon == <<"1", "4", "3", "0">>

ReportForms ==
    [selected_id : {e.id : e \in endoscopes}, medecin_responsable : {"", "Dr A"}, date_desinfection : {1},
     type_desinfection : {"manuel"}, cycle : {"complet"}, test_etancheite : {"réussi"},
     heure_debut : {<<>>, HeureNoColon, HeureOk}, heure_fin : {HeureOk},
     salle : {"S1"}, type_acte : {"coloscopie"}, etat_endoscope : Etats,
     nature_panne : {"", "fuite"}]

\* What the edit form of a report can submit: its fields start at the report's values.
EditForms(report) ==
    [nom_operateur : {report.nom_operateur, ""}, endoscope : {report.endoscope},
     numero_serie : {report.numero_serie}, medecin_responsable : {report.medecin_responsable},
     date_desinfection : {1}, type_desinfection : {report.type_desinfection},
     cycle : {report.cycle}, test_etancheite : {report.test_etancheite},
     heure_debut : {report.heure_debut, HeureNoColon}, heure_fin : {report.heure_fin},
     salle : {report.salle}, type_acte : {report.type_acte}, etat_endoscope : Etats,
     nature_panne : {"", "fuite"}]

InventoryCredentials == {<<"bio", "pw1">>, <<"alice", "pw1">>}
ReportCredentials == {<<"bio", "pw1">>, <<"alice", "pw1">>, <<"bob", "pw1">>}

----------------------------------------------------------------------------
(* Users and sessions: logins, logouts and the administration of users *)

Login == \E s \in Sessions, username \in UsernameInputs, password \in PasswordInputs :
             main_login(s, username, password)

Logout == \E s \in Sessions : main_logout(s)

EditUser == \E s \in Sessions, id \in UserIds, new_role \in Roles, new_password \in PasswordInputs :
                page_users(s, edit_user_btn(s, id, new_role, new_password))

DeleteUser == \E s \in Sessions, id \in UserIds : page_users(s, delete_user_btn(s, id))

AddUser == \E s \in Sessions, username \in UsernameInputs, password \in PasswordInputs, role \in Roles :
               /\ NextId(users) <= MaxUserId
               /\ page_users(s, add_user_form(s, username, password, role))

NextUsers == Login \/ Logout \/ EditUser \/ DeleteUser \/ AddUser

SpecUsers == InitUsers /\ [][NextUsers]_vars

----------------------------------------------------------------------------
(* Inventory: the engineer keeps the inventory while an agent files reports *)

LoginInventory == \E s \in Sessions, c \in InventoryCredentials : main_login(s, c[1], c[2])

EditEndoscope == \E s \in Sessions, id \in EndoscopeIds : page_inventory(s, edit_btn(s, id))

DeleteEndoscope == \E s \in Sessions, id \in EndoscopeIds : page_inventory(s, delete_btn(s, id))

UpdateEndoscope == \E s \in Sessions, id \in EndoscopeIds, update_data \in UpdateData :
                       page_inventory(s, update_form(s, id, update_data))

CancelEndoscope == \E s \in Sessions, id \in EndoscopeIds : page_inventory(s, update_form_cancel(s, id))

AddEndoscope == \E s \in Sessions, designation \in Designations \cup {""}, numero_serie \in Serials, etat \in Etats :
                    /\ NextId(endoscopes) <= MaxEndoscopeId
                    /\ page_inventory(s, add_endoscope_form(s, designation, "Olympus", "GIF",
                                                            numero_serie, etat, "", "stock"))

AddReport == \E s \in Sessions, form \in ReportForms :
                 /\ NextId(sterilisation_reports) <= MaxReportId
                 /\ page_reports(s, sterilisation_report_form(s, form))

DeleteReport == \E s \in Sessions, id \in ReportIds, filter_by_user \in BOOLEAN :
                    page_reports(s, del_steril_btn(s, id, filter_by_user))

\* The agent's reports of a breakdown, well formed: they set the etat of the endoscope.
FileReport == \E s \in Sessions, form \in ReportForms :
                  /\ NextId(sterilisation_reports) <= MaxReportId
                  /\ form.medecin_responsable # "" /\ form.heure_debut = HeureOk
                  /\ form.etat_endoscope = "en panne" /\ form.nature_panne # ""
                  /\ page_reports(s, sterilisation_report_form(s, form))

\* The engineer's work on the table of endoscopes, before any report is filed.
NextSerials ==
    \/ LoginInventory \/ Logout
    \/ EditEndoscope \/ DeleteEndoscope \/ UpdateEndoscope \/ CancelEndoscope \/ AddEndoscope

SpecSerials == InitRecords /\ [][NextSerials]_vars

NextInventory ==
    \/ LoginInventory \/ Logout
    \/ EditEndoscope \/ DeleteEndoscope \/ UpdateEndoscope \/ CancelEndoscope \/ AddEndoscope
    \/ FileReport

SpecInventory == InitRecords /\ [][NextInventory]_vars

----------------------------------------------------------------------------
(* Reports: the agents file and manage reports on a stocked inventory *)

LoginReports == \E s \in Sessions, c \in ReportCredentials : main_login(s, c[1], c[2])

EditReport == \E s \in Sessions, id \in ReportIds, filter_by_user \in BOOLEAN :
                  page_reports(s, edit_steril_btn(s, id, filter_by_user))

UpdateReport == \E s \in Sessions, report \in sterilisation_reports, filter_by_user \in BOOLEAN :
                    \E form \in EditForms(report) :
                        page_reports(s, edit_sterilisation_report_form(s, report.id, filter_by_user, form))

CancelReport == \E s \in Sessions, id \in ReportIds, filter_by_user \in BOOLEAN :
                    page_reports(s, cancel_edit(s, id, filter_by_user))

NextReports ==
    \/ LoginReports \/ Logout
    \/ AddReport \/ EditReport \/ DeleteReport \/ UpdateReport \/ CancelReport

SpecReports == InitReports /\ [][NextReports]_vars

----------------------------------------------------------------------------
(* The decorator alone: page functions called under every session state and  *)
(* every set of allowed roles                                                *)

RoleValues == Roles \cup {"autre"}

\* Every content the identity keys of st.session_state can have.
SessionStates ==
    {[k \in keys |-> IF k = "authenticated" THEN a ELSE IF k = "user_role" THEN r ELSE u] :
        keys \in SUBSET IdentityKeys, a \in BOOLEAN, r \in RoleValues, u \in {"alice"}}

InitGate ==
    /\ users = ClinicUsers
    /\ endoscopes = ClinicEndoscopes
    /\ sterilisation_reports = {}
    /\ session_state \in [Sessions -> SessionStates]
    /\ edit_mode = NoFlags
    /\ edit_steril = NoFlags
    /\ shown = {}
    /\ InitAside

\* A decorated function whose body is the "Supprimer" button of the inventory.
GatedDelete == \E s \in Sessions, allowed_roles \in SUBSET Roles, id \in EndoscopeIds :
                   wrapper(s, allowed_roles, delete_btn(s, id))

\* A decorated function whose body is the "Modifier" button of the inventory.
GatedEdit == \E s \in Sessions, allowed_roles \in SUBSET Roles, id \in EndoscopeIds :
                 wrapper(s, allowed_roles, edit_btn(s, id))

NextGate == GatedDelete \/ GatedEdit

SpecGate == InitGate /\ [][NextGate]_vars

----------------------------------------------------------------------------
(* Dashboard: sessions look at inventories of every size and send the alert *)

\* An inventory of total endoscopes of which the first broken ones are "en panne".
Fleet(total, broken) ==
    {[id |-> i, designation |-> "Gastroscope", marque |-> "Olympus", modele |-> "GIF",
      numero_serie |-> <<"SN", i>>, etat |-> IF i <= broken THEN "en panne" ELSE "fonctionnel",
      observation |-> "", localisation |-> "stock", created_by |-> "bio"] : i \in 1..total}

InitDashboard ==
    /\ users = ClinicUsers
    /\ \E total \in 0..MaxFleet : \E broken \in 0..total : endoscopes = Fleet(total, broken)
    /\ sterilisation_reports = {}
    /\ session_state = NoSession
    /\ edit_mode = NoFlags
    /\ edit_steril = NoFlags
    /\ shown = {}
    /\ InitAside

DashboardCredentials == {<<"admin", "pw1">>, <<"alice", "pw1">>}

LoginDashboard == \E s \in Sessions, c \in DashboardCredentials : main_login(s, c[1], c[2])

ViewDashboard == \E s \in Sessions : page_dashboard(s, show_dashboard(s))

SendAlert == \E s \in Sessions, sent \in BOOLEAN :
                 /\ Len(send_attempts) < MaxAlerts
                 /\ page_dashboard(s, send_alert_btn(s, sent))

NextDashboard == LoginDashboard \/ Logout \/ ViewDashboard \/ SendAlert

SpecDashboard == InitDashboard /\ [][NextDashboard]_vars

----------------------------------------------------------------------------
(* Script runs of two sessions interleaved between their database calls *)

RaceCredentials == {<<"bio", "pw1">>, <<"alice", "pw1">>}

\* Well-formed submissions of the report form.
RaceForms ==
    [selected_id : EndoscopeIds, medecin_responsable : {"Dr A"}, date_desinfection : {1},
     type_desinfection : {"manuel"}, cycle : {"complet"}, test_etancheite : {"réussi"},
     heure_debut : {HeureOk}, heure_fin : {HeureOk}, salle : {"S1"}, type_acte : {"coloscopie"},
     etat_endoscope : Etats, nature_panne : {"fuite"}]

LoginRace == \E s \in Sessions, c \in RaceCredentials : Idle(s) /\ main_login(s, c[1], c[2])

LogoutRace == \E s \in Sessions : Idle(s) /\ main_logout(s)

EditRace == \E s \in Sessions, id \in EndoscopeIds : Idle(s) /\ page_inventory(s, edit_btn(s, id))

DeleteRace == \E s \in Sessions, id \in EndoscopeIds : Idle(s) /\ page_inventory(s, delete_btn(s, id))

UpdateRace == \E s \in Sessions, id \in EndoscopeIds, update_data \in UpdateData :
                  Idle(s) /\ page_inventory(s, update_form(s, id, update_data))

ReadInventory == \E s \in Sessions : page_inventory(s, get_all_endoscopes(s, 279))

WriteInventory == \E s \in Sessions, id \in EndoscopeIds, update_data \in UpdateData :
                      update_form_write(s, id, update_data)

ReadForReport == \E s \in Sessions : page_reports(s, get_all_endoscopes(s, 377))

WriteReport == \E s \in Sessions, form \in RaceForms :
                   /\ NextId(sterilisation_reports) <= MaxReportId
                   /\ sterilisation_report_write(s, form)

Returns == \E s \in Sessions : script_returns(s)

NextRace ==
    \/ LoginRace \/ LogoutRace \/ EditRace \/ UpdateRace \/ DeleteRace
    \/ ReadForReport \/ WriteReport \/ Returns

SpecRace == InitReports /\ [][NextRace]_vars

----------------------------------------------------------------------------
(* Two sessions at work on the same endoscope, or on the same report *)

\* The report the agent alice has filed on the endoscope in stock.
ClinicReports ==
    {[id |-> 1, nom_operateur |-> "alice", endoscope |-> "Gastroscope", numero_serie |-> "SN1",
      medecin_responsable |-> "Dr A", date_desinfection |-> str_date(1),
      type_desinfection |-> "manuel", cycle |-> "complet", test_etancheite |-> "réussi",
      heure_debut |-> HeureOk, heure_fin |-> HeureOk, procedure_medicale |-> "N/A",
      salle |-> "S1", type_acte |-> "coloscopie", etat_endoscope |-> "fonctionnel",
      nature_panne |-> None, created_by |-> "alice"]}

InitCoedit ==
    /\ users = ClinicUsers
    /\ endoscopes = ClinicEndoscopes
    /\ sterilisation_reports = ClinicReports
    /\ session_state = NoSession
    /\ edit_mode = NoFlags
    /\ edit_steril = NoFlags
    /\ shown = {}
    /\ InitAside

EditReportCoedit == \E s \in Sessions, id \in ReportIds :
                        Idle(s) /\ page_reports(s, edit_steril_btn(s, id, TRUE))

UpdateReportCoedit == \E s \in Sessions, report \in sterilisation_reports :
                          \E form \in EditForms(report) :
                              /\ Idle(s)
                              /\ page_reports(s, edit_sterilisation_report_form(s, report.id, TRUE, form))

NextCoedit ==
    \/ LoginRace \/ EditRace \/ ReadInventory \/ WriteInventory \/ Returns
    \/ EditReportCoedit \/ UpdateReportCoedit

SpecCoedit == InitCoedit /\ [][NextCoedit]_vars

----------------------------------------------------------------------------
(* Access control: the decorator, the pages, login and logout *)

Permitted(s, allowed_roles) ==
    check_authentication(session_state[s]) /\ get_user_role(session_state[s]) \in allowed_roles

\* C1: a function decorated with require_role(A) runs its body exactly when the session is
\* authenticated and its user_role is in A; otherwise the call displays the refusal and
\* leaves the session state and the Record Store as they were.
GateContract ==
    [][\A s \in Sessions, allowed_roles \in SUBSET Roles, id \in EndoscopeIds :
          (wrapper(s, allowed_roles, delete_btn(s, id)) \/ wrapper(s, allowed_roles, edit_btn(s, id)))
          => IF Permitted(s, allowed_roles)
             THEN delete_btn(s, id) \/ edit_btn(s, id)
             ELSE /\ UNCHANGED <<store, session_state, edit_mode, edit_steril>>
                  /\ shown' = {IF check_authentication(session_state[s])
                               THEN MsgForbidden ELSE MsgUnauthenticated}]_vars

\* A body has run (the stock is empty) and a later call was refused for its role.
GateWitness == endoscopes = {} /\ shown = {MsgForbidden}

NavigationTable(user_role) ==
    IF user_role = "admin" THEN {PageDashboard, PageUsers, PageArchives}
    ELSE IF user_role = "biomedical" THEN {PageDashboard, PageInventory, PageArchives}
    ELSE {PageDashboard, PageReports, PageArchives}

\* C2: the pages offered to a session are those of its role's row of the navigation table,
\* and the gate of a page permits the session's role exactly when the page is in that row.
NavigationMatchesGates ==
    \A s \in Sessions :
        check_authentication(session_state[s]) =>
            LET user_role == get_user_role(session_state[s]) IN
            /\ menu_options(user_role) = NavigationTable(user_role)
            /\ \A page \in Pages :
                  (require_role(allowed_roles_of(page), session_state[s]) = "func")
                  <=> page \in NavigationTable(user_role)

\* C3: a login with valid credentials authenticates the session under the submitted username
\* and the role stored for it; an unknown username and a wrong password of a known username
\* display the same message and leave the session without identity.
LoginContract ==
    [][\A s \in Sessions, username \in UsernameInputs \ {""}, password \in PasswordInputs \ {""} :
          main_login(s, username, password) =>
              LET known == \E u \in users : u.username = username
                  valid == \E u \in users : u.username = username /\ u.password = hash_password(password)
              IN /\ valid => session_state'[s] =
                                 LoggedIn((CHOOSE u \in users : u.username = username).role, username)
                 /\ (~known \/ (known /\ ~valid)) =>
                        /\ shown' = {MsgLoginBad}
                        /\ UNCHANGED session_state
                        /\ DOMAIN session_state'[s] \cap IdentityKeys = {}]_vars

\* alice holds a session with the role stored for her while another login has just failed.
LoginWitness ==
    /\ shown = {MsgLoginBad}
    /\ \E s \in Sessions, u \in users :
           /\ u.username = "alice" /\ u.role = "sterilisation"
           /\ session_state[s] = LoggedIn("sterilisation", "alice")

\* C4: logout removes authenticated, user_role and username from the session at once, so that
\* every role-gated call is refused until a login succeeds again, and it changes nothing else:
\* not the Record Store, not another session.
LogoutContract ==
    [][\A s \in Sessions :
          /\ main_logout(s) =>
                 /\ DOMAIN session_state'[s] \cap IdentityKeys = {}
                 /\ \A allowed_roles \in SUBSET Roles :
                        require_role(allowed_roles, session_state'[s]) = MsgUnauthenticated
                 /\ UNCHANGED <<store, edit_mode, edit_steril>>
                 /\ \A t \in Sessions \ {s} : session_state'[t] = session_state[t]
          /\ (~check_authentication(session_state[s]) /\ check_authentication(session_state'[s])) =>
                 \E u \in users : session_state'[s] = LoggedIn(u.role, u.username)]_vars

\* A session that set an edit flag has logged out: its identity is gone, the flag is not.
LogoutWitness ==
    \E s \in Sessions : edit_mode[s] # {} /\ DOMAIN session_state[s] = {} /\ endoscopes # {}

\* C5: the user named admin exists in every state, and asking for its deletion changes no user.
AdminProtected ==
    /\ [](\E u \in users : u.username = "admin")
    /\ [][\A s \in Sessions, id \in UserIds :
             (page_users(s, delete_user_btn(s, id)) /\ \E u \in users : u.id = id /\ u.username = "admin")
             => (UNCHANGED users /\ shown' = {MsgAdminProtected})]_vars

\* The deletion of admin has just been refused, although admin no longer has the role admin.
AdminWitness ==
    /\ shown = {MsgAdminProtected}
    /\ \E u \in users : u.username = "admin" /\ u.role # "admin"

----------------------------------------------------------------------------
(* Records: endoscopes and sterilisation reports *)

\* C6: no two endoscopes share a numero_serie; adding an endoscope, or updating one, with the
\* numero_serie of another record fails and leaves the store as it was, and adding one with a
\* new numero_serie puts the record in the table the next read returns.
SerialsUnique ==
    /\ [](\A e1, e2 \in endoscopes : e1.numero_serie = e2.numero_serie => e1 = e2)
    /\ [][\A s \in Sessions :
             /\ \A designation \in Designations, numero_serie \in Serials, etat \in Etats :
                    page_inventory(s, add_endoscope_form(s, designation, "Olympus", "GIF",
                                                         numero_serie, etat, "", "stock"))
                    => IF \E e \in endoscopes : e.numero_serie = numero_serie
                       THEN UNCHANGED store /\ shown' = {MsgSerialExists}
                       ELSE \E e \in endoscopes' \ endoscopes :
                                /\ e.numero_serie = numero_serie /\ e.designation = designation
                                /\ e.etat = etat /\ endoscopes' = endoscopes \cup {e}
             /\ \A id \in EndoscopeIds, update_data \in UpdateData :
                    (/\ \E e \in endoscopes : e.id # id /\ e.numero_serie = update_data.numero_serie
                     /\ page_inventory(s, update_form(s, id, update_data)))
                    => UNCHANGED store /\ shown' = {MsgEndoscopeUpdateError}]_vars

\* Two endoscopes are in the table and the numero_serie of one has just been refused.
SerialsWitness ==
    /\ Cardinality(endoscopes) = 2
    /\ shown \in {{MsgSerialExists}, {MsgEndoscopeUpdateError}}

NonEmpty(text) == text \notin {None, ""}

\* C7: a stored report has a nature_panne exactly when its etat_endoscope is "en panne"; a
\* submission, new or edited, that is "en panne" without a nature_panne writes nothing.
NatureIffPanne ==
    /\ [](\A r \in sterilisation_reports :
             /\ NonEmpty(r.nature_panne) <=> r.etat_endoscope = "en panne"
             /\ r.etat_endoscope = "fonctionnel" => r.nature_panne = None)
    /\ [][\/ UNCHANGED store
          \/ \A s \in Sessions :
                 /\ \A form \in ReportForms :
                        form.etat_endoscope = "en panne" /\ form.nature_panne = ""
                        => ~page_reports(s, sterilisation_report_form(s, form))
                 /\ \A report \in sterilisation_reports, filter_by_user \in BOOLEAN :
                        \A form \in EditForms(report) :
                            form.etat_endoscope = "en panne" /\ form.nature_panne = ""
                            => ~page_reports(s, edit_sterilisation_report_form(s, report.id,
                                                                              filter_by_user, form))]_vars

\* A report "en panne" with its nature is stored, its edit form is open, and a submission
\* without the nature has just been refused.
NatureWitness ==
    /\ shown = {MsgNature}
    /\ \E s \in Sessions, r \in sterilisation_reports :
           r.etat_endoscope = "en panne" /\ r.nature_panne = "fuite" /\ r.id \in edit_steril[s]

\* C8: can_modify is true exactly for the roles admin and biomedical, and for the role
\* sterilisation when the acting user is the author of the report.
CanModifyRule ==
    \A r \in sterilisation_reports :
        /\ \A user_role \in RoleValues \cup {None}, username \in {u.username : u \in users} \cup {None} :
               can_user_modify_sterilisation_report(user_role, r.id, username)
               <=> \/ user_role \in {"admin", "biomedical"}
                   \/ user_role = "sterilisation" /\ username = r.created_by
        /\ \A s \in Sessions :
               can_modify(s, r)
               <=> \/ get_user_role(session_state[s]) \in {"admin", "biomedical"}
                   \/ /\ get_user_role(session_state[s]) = "sterilisation"
                      /\ get_username(session_state[s]) = r.created_by

\* An agent is logged in while the store holds a report of the other agent.
CanModifyWitness ==
    \E s \in Sessions, r \in sterilisation_reports :
        /\ session_state[s] = LoggedIn("sterilisation", "bob")
        /\ r.created_by = "alice"
        /\ ~can_modify(s, r)

\* The form of a new report is within reach of the session: main() dispatches to the page
\* and the decorator lets the call through.
ReachesReportForm(s) ==
    main(s, PageReports) /\ require_role(allowed_roles_of(PageReports), session_state[s]) = "func"

\* C9: the sessions that can create a report are those of the roles sterilisation and
\* biomedical, both of them, and no other.
ReportCreators ==
    \A s \in Sessions :
        ReachesReportForm(s)
        <=> /\ check_authentication(session_state[s])
            /\ get_user_role(session_state[s]) \in {"sterilisation", "biomedical"}

WithoutEtat(table) == {[e EXCEPT !.etat = "fonctionnel"] : e \in table}

\* C10: the table of endoscopes changes only by an addition, an update or a deletion made by
\* a session of role biomedical, or in the etat column alone by the submission of a report.
InventoryWriters ==
    [][endoscopes' # endoscopes =>
          \/ \E s \in Sessions :
                 /\ check_authentication(session_state[s])
                 /\ get_user_role(session_state[s]) = "biomedical"
                 /\ \/ \E id \in EndoscopeIds : delete_btn(s, id)
                    \/ \E id \in EndoscopeIds, update_data \in UpdateData : update_form(s, id, update_data)
                    \/ \E designation \in Designations, numero_serie \in Serials, etat \in Etats :
                           add_endoscope_form(s, designation, "Olympus", "GIF", numero_serie,
                                              etat, "", "stock")
          \/ /\ \E r \in sterilisation_reports' \ sterilisation_reports :
                    sterilisation_reports' = sterilisation_reports \cup {r}
             /\ WithoutEtat(endoscopes') = WithoutEtat(endoscopes)
             /\ Cardinality(endoscopes') = Cardinality(endoscopes)]_vars

\* Of two endoscopes entered by the engineer, one is "en panne" and the store holds the
\* report of an agent that declared it so.
InventoryWitness ==
    \E e \in endoscopes, r \in sterilisation_reports :
        /\ r.numero_serie = e.numero_serie /\ r.created_by = "alice"
        /\ r.etat_endoscope = "en panne" /\ e.etat = "en panne" /\ e.created_by = "bio"
        /\ Cardinality(endoscopes) = 2


----------------------------------------------------------------------------
(* Reports and the inventory: the etat a report sets, the snapshot it keeps *)

\* C11: when a report with etat_endoscope = s is stored for the endoscope E, the etat of E is s
\* right after the submission, no other endoscope changes, and the counts of the dashboard
\* computed then count E under s.
ReportSetsEtat ==
    [][\A s \in Sessions, form \in ReportForms :
           (/\ sterilisation_reports' # sterilisation_reports
            /\ page_reports(s, sterilisation_report_form(s, form)))
           => LET E == CHOOSE e \in endoscopes : e.id = form.selected_id
                  others == {e \in endoscopes : e.id # E.id}
                  broken_others == Cardinality({e \in others : e.etat = "en panne"})
                  broken_E == IF form.etat_endoscope = "en panne" THEN 1 ELSE 0
              IN /\ endoscopes' = others \cup {[E EXCEPT !.etat = form.etat_endoscope]}
                 /\ get_malfunction_percentage'.broken_count = broken_others + broken_E
                 /\ get_malfunction_percentage'.total_count = Cardinality(endoscopes)
                 /\ status_stats'[form.etat_endoscope] >= 1]_vars

\* A stored report declared the endoscope "en panne" and the dashboard counts it as broken.
ReportSetsEtatWitness ==
    \E r \in sterilisation_reports, e \in endoscopes :
        /\ r.numero_serie = e.numero_serie /\ r.etat_endoscope = "en panne"
        /\ e.etat = "en panne"
        /\ get_malfunction_percentage.broken_count = 1
        /\ shown = {}


\* C12: a new report carries the designation and the numero_serie the selected endoscope has
\* when the report is stored, and an update or a deletion of an endoscope changes no report.
SnapshotKept ==
    [][\/ UNCHANGED sterilisation_reports
       \/ /\ \A s \in Sessions, form \in ReportForms :
                 page_reports(s, sterilisation_report_form(s, form))
                 => LET E == CHOOSE e \in endoscopes : e.id = form.selected_id IN
                    \E r \in sterilisation_reports' \ sterilisation_reports :
                        /\ sterilisation_reports' = sterilisation_reports \cup {r}
                        /\ r.endoscope = E.designation /\ r.numero_serie = E.numero_serie
          /\ \A s \in Sessions, id \in EndoscopeIds :
                 /\ ~page_inventory(s, delete_btn(s, id))
                 /\ \A update_data \in UpdateData : ~page_inventory(s, update_form(s, id, update_data))]_vars

\* A stored report still names a numero_serie that no endoscope of the inventory carries any
\* more: its endoscope was renumbered or deleted after the report.
SnapshotWitness ==
    /\ endoscopes # {}
    /\ \E r \in sterilisation_reports :
           /\ r.endoscope = "Gastroscope"
           /\ \A e \in endoscopes : e.numero_serie # r.numero_serie


----------------------------------------------------------------------------
(* Dashboard: the malfunction percentage and its alert *)

\* C13: the malfunction percentage is 0 with the counts (0, 0) over an empty inventory and
\* 100 * broken_count / total_count otherwise (6 of 10 gives 60); the alert and its button are
\* there exactly when 2 * broken_count > total_count, so neither at half nor when empty.
PercentageAndAlert ==
    LET stats == get_malfunction_percentage
        q == stats.malfunction_percentage
        broken == Cardinality({e \in endoscopes : e.etat = "en panne"})
        total == Cardinality(endoscopes)
    IN /\ stats.broken_count = broken /\ stats.total_count = total
       /\ total = 0 => Equal(q, 0) /\ broken = 0
       /\ total > 0 => q[2] > 0 /\ q[1] * total = 100 * broken * q[2]
       /\ (broken = 6 /\ total = 10) => Equal(q, 60)
       /\ alert_offered <=> 2 * broken > total
       /\ 2 * broken = total => ~alert_offered
       /\ \A s \in Sessions :
              main(s, PageDashboard)
              => ((\E sent \in BOOLEAN : ENABLED page_dashboard(s, send_alert_btn(s, sent)))
                  <=> 2 * broken > total)

\* Six of ten endoscopes are broken and the alert offered then has been sent.
PercentageWitness ==
    /\ get_malfunction_percentage.total_count = 10
    /\ get_malfunction_percentage.broken_count = 6
    /\ alert_offered
    /\ send_attempts # <<>>

\* C14: an attempt to send the alert is made only by the button, one attempt for one press; a
\* failed attempt is reported as a failure, is not tried again, and leaves the Record Store and
\* the session as they were.
OneAttemptPerPress ==
    [][\/ UNCHANGED send_attempts
       \/ \E s \in Sessions, sent \in BOOLEAN :
              /\ page_dashboard(s, send_alert_btn(s, sent))
              /\ Len(send_attempts') = Len(send_attempts) + 1
              /\ SubSeq(send_attempts', 1, Len(send_attempts)) = send_attempts
              /\ send_attempts'[Len(send_attempts')].sent = sent
              /\ shown' = IF sent THEN {MsgAlertSent} ELSE {MsgAlertFailed}
              /\ UNCHANGED <<store, session_state, edit_mode, edit_steril>>]_vars

\* A failed attempt is on the page, and the one before it had failed as well: the user has
\* pressed the button again.
OneAttemptWitness ==
    /\ shown = {MsgAlertFailed}
    /\ Len(send_attempts) = 2
    /\ ~send_attempts[1].sent /\ ~send_attempts[2].sent


----------------------------------------------------------------------------
(* Concurrent sessions: last write wins, reports and the endoscope they name *)

\* The row of the table carries exactly the fields submitted.
CarriesAll(row, update_data) ==
    /\ row.designation = update_data.designation /\ row.marque = update_data.marque
    /\ row.modele = update_data.modele /\ row.numero_serie = update_data.numero_serie
    /\ row.etat = update_data.etat /\ row.observation = update_data.observation
    /\ row.localisation = update_data.localisation

\* C15: an update of an endoscope (or of a report) is applied whatever has been written to the
\* record since the session read it: no conflict is detected, and the stored record then carries
\* every field value the update submitted, those the user left as read included.
LastWriteWins ==
    [][\A s \in Sessions :
          /\ \A id \in EndoscopeIds, update_data \in UpdateData :
                 (/\ \E e \in endoscopes : e.id = id
                  /\ \A e \in endoscopes : e.id # id => e.numero_serie # update_data.numero_serie
                  /\ update_form_write(s, id, update_data))
                 => /\ \E e \in endoscopes' : e.id = id /\ CarriesAll(e, update_data)
                    /\ id \notin edit_mode'[s]
                    /\ shown' = {}
          /\ \A report \in sterilisation_reports :
                 \A form \in EditForms(report) :
                     (/\ form.nom_operateur # "" /\ has_colon(form.heure_debut)
                      /\ form.etat_endoscope = "en panne" => form.nature_panne # ""
                      /\ page_reports(s, edit_sterilisation_report_form(s, report.id, TRUE, form)))
                     => /\ \E r \in sterilisation_reports' :
                               /\ r.id = report.id
                               /\ r.nom_operateur = form.nom_operateur
                               /\ r.heure_debut = form.heure_debut
                               /\ r.etat_endoscope = form.etat_endoscope
                               /\ r.nature_panne = nature_panne_of(form)
                        /\ report.id \notin edit_steril'[s]
                        /\ shown' = {}]_vars

\* Both sessions have read the same table, where the endoscope is "fonctionnel" under SN1.
\* One has set it "en panne"; the other, last, has only renumbered it, and its update has put
\* the etat it had read back in the record.
LastWriteWitness ==
    \E id \in EndoscopeIds, read \in ClinicEndoscopes, now \in endoscopes :
        /\ read.id = id /\ now.id = id
        /\ \A s \in Sessions :
               /\ script_run[s].line = 279 /\ script_run[s].returned
               /\ script_run[s].endoscopes_df = ClinicEndoscopes
               /\ id \notin edit_mode[s]
        /\ \E first, last \in Sessions :
               \E d1 \in script_run[first].update_data, d2 \in script_run[last].update_data :
                   /\ d1.etat = "en panne" /\ d1.numero_serie = read.numero_serie
                   /\ d2.etat = read.etat /\ d2.numero_serie # read.numero_serie
                   /\ CarriesAll(now, d2)
        /\ shown = {}


\* C18: every report, at the step that stores it, names an endoscope present in the inventory
\* under the designation and the numero_serie the report records, whatever another session
\* has updated or deleted in the meantime.
ReportNamesEndoscope ==
    [][\A r \in sterilisation_reports' \ sterilisation_reports :
          \E e \in endoscopes :
              e.designation = r.endoscope /\ e.numero_serie = r.numero_serie]_vars


----------------------------------------------------------------------------
(* app.py: show_archives_interface, tab "Rapports de Stérilisation" *)

MsgNoReports == "Aucun rapport de stérilisation disponible."

\* pd.to_datetime(text).dt.date on the text of the date column.
to_datetime_date(text) == text[2]

\* st.date_input("Du", None): no date is <<>>, a date d is <<d>>.
date_input(days) == {<<>>} \cup {<<d>> : d \in days}

\* The five "if ...: filtered_steril = filtered_steril[...]" lines with an end bound that leaves
\* the last day out.
filtered_steril_open_end(reports_df, operators, medecins, states, start_date, end_date) ==
    LET by_op == IF operators # {} THEN {r \in reports_df : r.nom_operateur \in operators}
                 ELSE reports_df
        by_med == IF medecins # {} THEN {r \in by_op : r.medecin_responsable \in medecins} ELSE by_op
        by_state == IF states # {} THEN {r \in by_med : r.etat_endoscope \in states} ELSE by_med
        by_start == IF start_date # <<>>
                    THEN {r \in by_state : to_datetime_date(r.date_desinfection) >= start_date[1]}
                    ELSE by_state
    IN IF end_date # <<>>
       THEN {r \in by_start : to_datetime_date(r.date_desinfection) < end_date[1]}
       ELSE by_start

\* The five "if ...: filtered_steril = filtered_steril[...]" lines, one after the other.
filtered_steril(reports_df, operators, medecins, states, start_date, end_date) ==
    LET by_op == IF operators # {} THEN {r \in reports_df : r.nom_operateur \in operators}
                 ELSE reports_df
        by_med == IF medecins # {} THEN {r \in by_op : r.medecin_responsable \in medecins} ELSE by_op
        by_state == IF states # {} THEN {r \in by_med : r.etat_endoscope \in states} ELSE by_med
        by_start == IF start_date # <<>>
                    THEN {r \in by_state : to_datetime_date(r.date_desinfection) >= start_date[1]}
                    ELSE by_state
    IN IF end_date # <<>>
       THEN {r \in by_start : to_datetime_date(r.date_desinfection) <= end_date[1]}
       ELSE by_start

\* The value a row is sorted on: the columns offered here are the id and the date.
sort_key(r, by) == IF by = "id" THEN r.id ELSE to_datetime_date(r.date_desinfection)

\* sort_values(by, ascending): every order of the rows that follows the column; the order of
\* rows equal on the column is not fixed.
sort_values(rows, by, ascending) ==
    {q \in [1..Cardinality(rows) -> rows] :
        /\ \A i, j \in DOMAIN q : i # j => q[i] # q[j]
        /\ \A i, j \in DOMAIN q :
               i < j => IF ascending THEN sort_key(q[i], by) <= sort_key(q[j], by)
                                     ELSE sort_key(q[i], by) >= sort_key(q[j], by)}

\* drop(columns=['procedure_medicale'], errors='ignore')
drop_procedure(q) ==
    [i \in DOMAIN q |-> [c \in DOMAIN q[i] \ {"procedure_medicale"} |-> q[i][c]]]

\* One run of the page with the widgets as the session holds them: the frame drawn under the
\* expander, or the notice when there is no report at all.
show_archives_interface(s) ==
    /\ IF sterilisation_reports # {}
       THEN /\ \E q \in sort_values(filtered_steril(sterilisation_reports, dataframe.op_filter,
                                                     dataframe.med_filter, dataframe.state_filter,
                                                     dataframe.steril_start, dataframe.steril_end),
                                     dataframe.sort_steril_col,
                                     dataframe.sort_steril_order = "Ascendant") :
                   dataframe' = [dataframe EXCEPT !.data = drop_procedure(q), !.drawn = TRUE]
            /\ shown' = {}
       ELSE /\ dataframe' = [dataframe EXCEPT !.data = <<>>, !.drawn = FALSE]
            /\ shown' = {MsgNoReports}
    /\ UNCHANGED <<store, session_state, edit_mode, edit_steril, script_run, send_attempts>>

page_archives(s, func) == main(s, PageArchives) /\ func

----------------------------------------------------------------------------
(* Archives: a table of at most two reports, the widgets at any value *)

MaxDay == 2

Days == 1..MaxDay
Operateurs == {"alice", "bob"}
Medecins == {"Dr A", "Dr B"}

\* A second report, filed by any agent for any doctor, state and day.
OtherReports ==
    {[id |-> 2, nom_operateur |-> op, endoscope |-> "Gastroscope", numero_serie |-> "SN1",
      medecin_responsable |-> med, date_desinfection |-> str_date(d),
      type_desinfection |-> "manuel", cycle |-> "complet", test_etancheite |-> "réussi",
      heure_debut |-> HeureOk, heure_fin |-> HeureOk, procedure_medicale |-> "N/A",
      salle |-> "S1", type_acte |-> "coloscopie", etat_endoscope |-> etat,
      nature_panne |-> IF etat = "en panne" THEN "fuite" ELSE None, created_by |-> op] :
     op \in Operateurs, med \in Medecins, etat \in Etats, d \in Days}

\* The multiselects offer the values present in the table.
Widgets(reports_df) ==
    [op_filter : SUBSET {r.nom_operateur : r \in reports_df},
     med_filter : SUBSET {r.medecin_responsable : r \in reports_df},
     state_filter : SUBSET {r.etat_endoscope : r \in reports_df},
     steril_start : date_input(Days), steril_end : date_input(Days),
     sort_steril_col : {"id", "date_desinfection"},
     sort_steril_order : {"Descendant", "Ascendant"},
     data : {<<>>}, drawn : {FALSE}]

InitArchives ==
    /\ users = ClinicUsers
    /\ endoscopes = ClinicEndoscopes
    /\ \E other \in SUBSET OtherReports :
           /\ Cardinality(other) <= 1
           /\ sterilisation_reports \in {{}, ClinicReports \cup other}
    /\ dataframe \in Widgets(sterilisation_reports)
    /\ session_state = NoSession
    /\ edit_mode = NoFlags
    /\ edit_steril = NoFlags
    /\ shown = {}
    /\ script_run = NoRun
    /\ send_attempts = <<>>

ArchivesCredentials == {<<"alice", "pw1">>}

LoginArchives == \E s \in Sessions, c \in ArchivesCredentials : main_login(s, c[1], c[2])

Archives == \E s \in Sessions : page_archives(s, show_archives_interface(s))

NextArchives == LoginArchives \/ Archives

SpecArchives == InitArchives /\ [][NextArchives]_vars

\* A report passes the widgets: one of the selected values in each field where some are
\* selected, and a day within the two bounds that are set.
Matches(r, w) ==
    /\ w.op_filter # {} => r.nom_operateur \in w.op_filter
    /\ w.med_filter # {} => r.medecin_responsable \in w.med_filter
    /\ w.state_filter # {} => r.etat_endoscope \in w.state_filter
    /\ w.steril_start # <<>> => w.steril_start[1] <= to_datetime_date(r.date_desinfection)
    /\ w.steril_end # <<>> => to_datetime_date(r.date_desinfection) <= w.steril_end[1]

\* C16: the frame of the archive shows exactly the reports that pass every active filter: one
\* of the selected values in each of operator, doctor and state, and a day between the two
\* bounds, both included; a field with nothing selected and a bound not set exclude nothing.
ArchiveExact ==
    dataframe.drawn =>
        /\ {dataframe.data[i].id : i \in DOMAIN dataframe.data}
              = {r.id : r \in {x \in sterilisation_reports : Matches(x, dataframe)}}
        /\ Len(dataframe.data) = Cardinality({x \in sterilisation_reports : Matches(x, dataframe)})

\* Two reports on the same day, the end bound on that day, the operator filter on one of the
\* two agents: the frame shows one report, the one of that agent.
ArchiveWitness ==
    /\ dataframe.drawn
    /\ Cardinality(sterilisation_reports) = 2
    /\ Len(dataframe.data) = 1
    /\ Cardinality(dataframe.op_filter) = 1
    /\ dataframe.steril_end # <<>>
    /\ to_datetime_date(dataframe.data[1].date_desinfection) = dataframe.steril_end[1]
    /\ \A r \in sterilisation_reports :
           to_datetime_date(r.date_desinfection) = dataframe.steril_end[1]


----------------------------------------------------------------------------
(* Who changes a report, and what a session's identity is made of *)

\* C17: a report is updated or deleted only by the update or the delete of a session that
\* can_modify holds for at that step; a session can_modify does not hold for cannot submit the
\* edit form of the report, although the report's edit flag is set in its state.
OnlyWhoCanModify ==
    [][\/ UNCHANGED sterilisation_reports
       \/ /\ \A report \in sterilisation_reports \ sterilisation_reports' :
                 \E s \in Sessions :
                     /\ can_modify(s, report)
                     /\ \E filter_by_user \in BOOLEAN :
                            \/ page_reports(s, del_steril_btn(s, report.id, filter_by_user))
                            \/ \E form \in EditForms(report) :
                                   page_reports(s, edit_sterilisation_report_form(
                                                       s, report.id, filter_by_user, form))
          /\ \A s \in Sessions, report \in sterilisation_reports :
                 (report.id \in edit_steril[s] /\ ~can_modify(s, report))
                 => \A filter_by_user \in BOOLEAN, form \in EditForms(report) :
                        ~page_reports(s, edit_sterilisation_report_form(
                                             s, report.id, filter_by_user, form))]_vars

\* bob is logged in where the edit flag of a report of alice was left set: can_modify is false
\* for him, and the report is as alice filed it.
OnlyWhoCanModifyWitness ==
    \E s \in Sessions, report \in sterilisation_reports :
        /\ check_authentication(session_state[s])
        /\ get_username(session_state[s]) = "bob"
        /\ report.created_by = "alice"
        /\ report.id \in edit_steril[s]
        /\ ~can_modify(s, report)


\* C19: the username and the user_role of an authenticated session change only by the logout
\* of that session: a change of the user's role or password by the administrator, and the
\* deletion of the user, leave every session as it is.
IdentityUntilLogout ==
    [][/\ \A s \in Sessions :
             check_authentication(session_state[s]) =>
                 \/ /\ get_username(session_state'[s]) = get_username(session_state[s])
                    /\ get_user_role(session_state'[s]) = get_user_role(session_state[s])
                 \/ main_logout(s)
       /\ (users' # users /\ Cardinality(users') <= Cardinality(users)) =>
             UNCHANGED session_state]_vars

\* alice is still logged in under the role she logged in with, while the users table has her
\* under another role and another password.
IdentityWitness ==
    \E s \in Sessions, u \in users :
        /\ session_state[s] = LoggedIn("sterilisation", "alice")
        /\ u.username = "alice"
        /\ u.role # "sterilisation"
        /\ u.password # hash_password("pw1")

\* C20: in every state a session is authenticated exactly when its username and its user_role
\* are both set; a step that changes a session's state is a login that sets the three keys
\* together or a logout that removes the three together.
IdentityKeysTogether ==
    /\ [](\A s \in Sessions :
             check_authentication(session_state[s])
             <=> (get_username(session_state[s]) # None /\ get_user_role(session_state[s]) # None))
    /\ [][\A s \in Sessions :
             session_state'[s] # session_state[s] =>
                 \/ /\ \E username \in UsernameInputs, password \in PasswordInputs :
                           main_login(s, username, password)
                    /\ DOMAIN session_state[s] \cap IdentityKeys = {}
                    /\ IdentityKeys \subseteq DOMAIN session_state'[s]
                 \/ /\ main_logout(s)
                    /\ IdentityKeys \subseteq DOMAIN session_state[s]
                    /\ DOMAIN session_state'[s] \cap IdentityKeys = {}]_vars

\* One session holds the three keys, the other none of them, a login having just been refused.
IdentityKeysWitness ==
    \E s, t \in Sessions :
        /\ IdentityKeys \subseteq DOMAIN session_state[s]
        /\ check_authentication(session_state[s])
        /\ DOMAIN session_state[t] \cap IdentityKeys = {}
        /\ shown = {MsgFillAll}

====
